---- MODULE Spec2Model ----
(***************************************************************************)
(* KDStateManager (kdstatemanager.js): an array of stored state objects,   *)
(* a current index used by undo/redo, and a template of keyed handler      *)
(* functions that a recall runs the recalled state through.                *)
(*                                                                         *)
(* JavaScript values are tagged records.  An object is a map from keys to  *)
(* values, an array is a sequence.  Zero-based JavaScript indices are kept *)
(* as they are; At() does the array read.  Indices are integers.           *)
(***************************************************************************)
EXTENDS Integers, Sequences, FiniteSets, TLC

VARIABLES store, storeOf, currentIndex, template, mode, onError, last

vars == <<store, storeOf, currentIndex, template, mode, onError, last>>

\* The longest store the model builds.
MaxLen == 3
\* The furthest below -1 the model lets the current index drift.
MaxUnder == 1

-----------------------------------------------------------------------------
(* JavaScript values *)

Undefined == [t |-> "undefined"]
Null == [t |-> "null"]
False == [t |-> "boolean", b |-> FALSE]
True == [t |-> "boolean", b |-> TRUE]
Num(n) == [t |-> "number", n |-> n]
Str(s) == [t |-> "string", s |-> s]
Fn(h) == [t |-> "function", h |-> h]
Obj(f) == [t |-> "object", f |-> f]
Arr(s) == [t |-> "array", s |-> s]

\* The order in which Object.keys lists the keys of the model's objects.
KeyOrder == <<"a", "b", "c">>

typeof(v) ==
  IF v.t \in {"null", "array"} THEN "object" ELSE v.t

\* ToBoolean, as the conditions `if (x)` and `x ? .. : ..` apply it.
Truthy(v) ==
  CASE v.t = "undefined" -> FALSE
    [] v.t = "null" -> FALSE
    [] v.t = "boolean" -> v.b
    [] v.t = "number" -> v.n # 0
    [] v.t = "string" -> v.s # ""
    [] OTHER -> TRUE

\* obj[key]: undefined for a missing key and for a value without properties.
Get(v, key) ==
  IF v.t = "object" /\ key \in DOMAIN v.f THEN v.f[key] ELSE Undefined

\* Object.keys(obj)
ObjectKeys(v) ==
  IF v.t = "object" THEN SelectSeq(KeyOrder, LAMBDA k : k \in DOMAIN v.f) ELSE <<>>

\* array[index] for an integer index.
At(s, index) ==
  IF index >= 0 /\ index < Len(s) THEN s[index + 1] ELSE Undefined

\* array.splice(index, 1) for an index of the array.
SpliceOut(s, index) ==
  SubSeq(s, 1, index) \o SubSeq(s, index + 2, Len(s))

\* array.splice(index, 0, x) for 0 <= index <= length.
SpliceIn(s, index, x) ==
  SubSeq(s, 1, index) \o <<x>> \o SubSeq(s, index + 1, Len(s))

\* What JSON.stringify leaves out of an object and turns to null in an array.
Unserializable(v) == v.t \in {"undefined", "function"}

RECURSIVE deepCopy(_)
\* JSON.parse(JSON.stringify(obj)).  At the top level an unserializable value
\* makes JSON.parse throw; the model never passes one.
deepCopy(v) ==
  CASE v.t = "object" ->
         Obj([k \in {x \in DOMAIN v.f : ~Unserializable(v.f[x])} |-> deepCopy(v.f[k])])
    [] v.t = "array" ->
         Arr([i \in 1..Len(v.s) |->
               IF Unserializable(v.s[i]) THEN Null ELSE deepCopy(v.s[i])])
    [] OTHER -> v

-----------------------------------------------------------------------------
(* The manager while a call runs: the three _state fields, dev.mode,       *)
(* dev.props.onError and the calls made so far to user code (template      *)
(* handlers, the completion callback, the onError function), each with the *)
(* _state it could observe.                                                *)

\* Which object a value handed to the caller is: an object of its own (what
\* deepCopy makes), the very object _state.store holds at an index, or the
\* _state.store array itself.
Fresh == [k |-> "fresh", i |-> 0]
Slot(index) == [k |-> "slot", i |-> index]
TheStore == [k |-> "store", i |-> 0]

Event(e, h, key, arg, m) ==
  [e |-> e, h |-> h, key |-> key, arg |-> arg, ref |-> Fresh,
   cur |-> m.currentIndex, store |-> m.store]

Emit(m, e, h, key, arg) ==
  [m EXCEPT !.ev = Append(@, Event(e, h, key, arg, m))]

\* dev.error: passes a new Error to dev.props.onError, the function it holds
\* at that moment.
dev_error(m) == Emit(m, "onError", m.onError.h, "", Undefined)

\* Mutant of dev_end: onFail runs whatever dev.mode is.
dev_end_anyMode(m, success, onFail) ==
  IF ~Truthy(success) /\ onFail THEN dev_error(m) ELSE m

\* dev.end(success, onSuccess, onFail): in dev mode a failed call runs onFail,
\* which every caller that passes one sets to _ => dev.error(..).
dev_end(m, success, onFail) ==
  IF m.mode /\ ~Truthy(success) /\ onFail THEN dev_error(m) ELSE m

\* handleCB: a function callback is called with the result.  cb is "none" (no
\* function given), "user" (the caller's callback) or "noop" (replace's _ => {}).
handleCB(m, cb, success) ==
  IF cb # "none" THEN Emit(m, "cb", cb, "", success) ELSE m

\* handleCB called with a value that is an object _state holds.
handleCBShared(m, cb, success, ref) ==
  IF cb # "none"
    THEN [m EXCEPT !.ev = Append(@, [Event("cb", cb, "", success, m) EXCEPT !.ref = ref])]
    ELSE m

checkTemplate(t) ==
  IF typeof(t) = "object"
    THEN IF t.t = "object" THEN \A k \in DOMAIN t.f : typeof(t.f[k]) = "function"
         ELSE IF t.t = "array" THEN \A i \in 1..Len(t.s) : typeof(t.s[i]) = "function"
         ELSE FALSE
    ELSE FALSE

index_last(m) == Len(m.store) - 1

Result(m, success) == [m |-> m, success |-> success, ref |-> Fresh]

\* The result is an object _state holds.
ResultShared(m, success, ref) == [m |-> m, success |-> success, ref |-> ref]

-----------------------------------------------------------------------------
(* _private *)

private_template(m, t0, cb) ==
  LET t == deepCopy(t0)
      ok == checkTemplate(t)
      success == IF ok THEN t ELSE False
      m1 == IF ok THEN [m EXCEPT !.template = t] ELSE m
  IN  Result(handleCB(m1, cb, success), success)

\* Mutant of private_store: the current index is left where it was.
private_store_keepsIndex(m, s0, cb) ==
  LET s == deepCopy(s0)
      ok == s.t = "array"
      success == IF ok THEN s ELSE False
      m1 == IF ok THEN [m EXCEPT !.store = s.s, !.storeOf = "manager"] ELSE m
  IN  IF ok THEN ResultShared(handleCBShared(m1, cb, s, TheStore), s, TheStore)
      ELSE Result(handleCB(m1, cb, False), False)

private_store(m, s0, cb) ==
  LET s == deepCopy(s0)
      ok == s.t = "array"
      success == IF ok THEN s ELSE False
      m1 == IF ok
              THEN [m EXCEPT !.store = s.s, !.storeOf = "manager",
                             !.currentIndex = Len(s.s) - 1]
              ELSE m
  IN  IF ok THEN ResultShared(handleCBShared(m1, cb, s, TheStore), s, TheStore)
      ELSE Result(handleCB(m1, cb, False), False)

\* Mutant of private_append: the current index is set to the length.
private_append_offByOne(m, state, cb) ==
  LET s == deepCopy(state)
      pushed == Append(m.store, s)
      m1 == [m EXCEPT !.store = pushed, !.currentIndex = Len(pushed)]
  IN  ResultShared(handleCBShared(m1, cb, s, Slot(Len(pushed) - 1)), s,
                   Slot(Len(pushed) - 1))

private_append(m, state, cb) ==
  LET s == deepCopy(state)
      pushed == Append(m.store, s)
      m1 == [m EXCEPT !.store = pushed, !.currentIndex = Len(pushed) - 1]
  IN  ResultShared(handleCBShared(m1, cb, s, Slot(Len(pushed) - 1)), s,
                   Slot(Len(pushed) - 1))

RECURSIVE Dispatch_wholeState(_, _, _)
\* Mutant of Dispatch: the handler gets the whole state, not its value for the key.
Dispatch_wholeState(m, keys, success) ==
  IF keys = <<>> THEN m
  ELSE LET key == Head(keys)
           h == Get(m.template, key)
           m1 == IF Truthy(h) THEN Emit(m, "handler", h.h, key, success) ELSE m
       IN  Dispatch_wholeState(m1, Tail(keys), success)

RECURSIVE Dispatch(_, _, _)
\* Object.keys(_state.template).forEach(key => ..) of recall.
Dispatch(m, keys, success) ==
  IF keys = <<>> THEN m
  ELSE LET key == Head(keys)
           h == Get(m.template, key)
           m1 == IF Truthy(h) THEN Emit(m, "handler", h.h, key, Get(success, key)) ELSE m
       IN  Dispatch(m1, Tail(keys), success)

\* Mutant of private_recall: the current index is not set.
private_recall_keepsIndex(m, index, cb) ==
  LET ok == Truthy(At(m.store, index))
      success == IF ok THEN deepCopy(At(m.store, index)) ELSE False
      m1 == IF ok THEN Dispatch(m, ObjectKeys(m.template), success) ELSE m
  IN  Result(handleCB(m1, cb, success), success)

\* Mutant of private_recall: the handlers run for a failed recall as well.
private_recall_dispatchesOnFailure(m, index, cb) ==
  LET ok == Truthy(At(m.store, index))
      success == IF ok THEN deepCopy(At(m.store, index)) ELSE False
      m1 == Dispatch(IF ok THEN [m EXCEPT !.currentIndex = index] ELSE m,
                     ObjectKeys(m.template), success)
  IN  Result(handleCB(m1, cb, success), success)

\* Mutant of private_recall: the current index is set after the handlers ran.
private_recall_setsIndexLast(m, index, cb) ==
  LET ok == Truthy(At(m.store, index))
      success == IF ok THEN deepCopy(At(m.store, index)) ELSE False
      m1 == IF ok
              THEN [Dispatch(m, ObjectKeys(m.template), success) EXCEPT !.currentIndex = index]
              ELSE m
  IN  Result(handleCB(m1, cb, success), success)

private_recall(m, index, cb) ==
  LET ok == Truthy(At(m.store, index))
      success == IF ok THEN deepCopy(At(m.store, index)) ELSE False
      m1 == IF ok
              THEN Dispatch([m EXCEPT !.currentIndex = index], ObjectKeys(m.template), success)
              ELSE m
  IN  Result(handleCB(m1, cb, success), success)

\* Mutant of private_delete: the current index is decremented outside the test.
private_delete_alwaysDecrements(m, index, cb) ==
  LET ok == Truthy(At(m.store, index))
      success == IF ok THEN deepCopy(At(m.store, index)) ELSE False
      m1 == IF ok
              THEN [m EXCEPT !.store = SpliceOut(@, index), !.currentIndex = @ - 1]
              ELSE [m EXCEPT !.currentIndex = @ - 1]
  IN  Result(handleCB(m1, cb, success), success)

\* Mutant of private_delete: the current index is decremented only for an index
\* at or before it.
private_delete_decrementsAtOrBefore(m, index, cb) ==
  LET ok == Truthy(At(m.store, index))
      success == IF ok THEN deepCopy(At(m.store, index)) ELSE False
      m1 == IF ok
              THEN [m EXCEPT !.store = SpliceOut(@, index),
                             !.currentIndex = IF index <= @ THEN @ - 1 ELSE @]
              ELSE m
  IN  Result(handleCB(m1, cb, success), success)

\* Mutant of private_delete: the last record is the one removed.
private_delete_removesLast(m, index, cb) ==
  LET ok == Truthy(At(m.store, index))
      success == IF ok THEN deepCopy(At(m.store, index)) ELSE False
      m1 == IF ok
              THEN [m EXCEPT !.store = SpliceOut(@, Len(@) - 1), !.currentIndex = @ - 1]
              ELSE m
  IN  Result(handleCB(m1, cb, success), success)

private_delete(m, index, cb) ==
  LET ok == Truthy(At(m.store, index))
      success == IF ok THEN deepCopy(At(m.store, index)) ELSE False
      m1 == IF ok
              THEN [m EXCEPT !.store = SpliceOut(@, index), !.currentIndex = @ - 1]
              ELSE m
  IN  Result(handleCB(m1, cb, success), success)

\* Mutant of private_insert: an insert at the current index shifts it too.
private_insert_shiftsAtCursor(m, index, state, cb) ==
  LET st == deepCopy(state)
      spliced == [m EXCEPT !.store = SpliceIn(@, index, st),
                           !.currentIndex = IF index <= @ THEN @ + 1 ELSE @]
      pushed == [m EXCEPT !.store = Append(@, st),
                          !.currentIndex = Len(m.store) + 1]
  IN  IF Truthy(At(m.store, index)) \/ index = Len(m.store)
        THEN ResultShared(handleCBShared(spliced, cb, st, Slot(index)), st, Slot(index))
        ELSE IF index > -1
          THEN ResultShared(handleCBShared(pushed, cb, st, Slot(Len(m.store))), st,
                            Slot(Len(m.store)))
          ELSE Result(handleCB(m, cb, False), False)

private_insert(m, index, state, cb) ==
  LET st == deepCopy(state)
      spliced == [m EXCEPT !.store = SpliceIn(@, index, st),
                           !.currentIndex = IF index < @ THEN @ + 1 ELSE @]
      pushed == [m EXCEPT !.store = Append(@, st),
                          !.currentIndex = Len(m.store) + 1]
  IN  IF Truthy(At(m.store, index)) \/ index = Len(m.store)
        THEN ResultShared(handleCBShared(spliced, cb, st, Slot(index)), st, Slot(index))
        ELSE IF index > -1
          THEN ResultShared(handleCBShared(pushed, cb, st, Slot(Len(m.store))), st,
                            Slot(Len(m.store)))
          ELSE Result(handleCB(m, cb, False), False)

\* Mutant of private_replace: the new state goes in one place further on.
private_replace_insertsAfter(m, index, state, cb) ==
  LET d == private_delete(m, index, "noop")
  IN  IF Truthy(d.success)
        THEN private_insert(d.m, index + 1, state, cb)
        ELSE Result(d.m, Undefined)

\* Mutant of private_replace: the caller's callback is handed to the delete too.
private_replace_callbackToDelete(m, index, state, cb) ==
  LET d == private_delete(m, index, cb)
  IN  IF Truthy(d.success)
        THEN private_insert(d.m, index, state, cb)
        ELSE Result(d.m, Undefined)

private_replace(m, index, state, cb) ==
  LET d == private_delete(m, index, "noop")
  IN  IF Truthy(d.success)
        THEN private_insert(d.m, index, state, cb)
        ELSE Result(d.m, Undefined)

private_undo(m, cb) ==
  IF m.currentIndex > 0 THEN private_recall(m, m.currentIndex - 1, cb)
  ELSE Result(m, False)

private_redo(m, cb) ==
  IF m.currentIndex < index_last(m) THEN private_recall(m, m.currentIndex + 1, cb)
  ELSE Result(m, False)

-----------------------------------------------------------------------------
(* The public methods: dev.start, the private function, dev.end, return.   *)

Returned(m, success, ret) ==
  [m |-> m, success |-> success, ret |-> ret, retRef |-> Fresh]

\* return success: the caller gets the object the private function returned.
ReturnedSame(m, r) ==
  [m |-> m, success |-> r.success, ret |-> r.success, retRef |-> r.ref]

\* this.onError = err => dev.props.onError = err
this_onError(m, err) == Returned([m EXCEPT !.onError = err], err, err)

this_devMode(m, on) ==
  Returned([m EXCEPT !.mode = on], IF on THEN True ELSE False, IF on THEN True ELSE False)

index_set(m, index) ==
  IF Truthy(At(m.store, index))
    THEN Returned([m EXCEPT !.currentIndex = index], Num(index), Num(index))
    ELSE Returned(dev_error(m), Undefined, Undefined)

this_template(m, t, cb) ==
  IF Truthy(t)
    THEN LET r == private_template(m, t, cb)
             m1 == dev_end(r.m, r.success, TRUE)
         IN  Returned(m1, r.success, deepCopy(m1.template))
    ELSE Returned(m, Undefined, deepCopy(m.template))

this_store(m, s, cb) ==
  IF Truthy(s)
    THEN LET r == private_store(m, s, cb)
             m1 == dev_end(r.m, r.success, TRUE)
         IN  Returned(m1, r.success, deepCopy(Arr(m1.store)))
    ELSE Returned(m, Undefined, deepCopy(Arr(m.store)))

this_append(m, state, cb) ==
  LET r == private_append(m, state, cb)
  IN  ReturnedSame(dev_end(r.m, r.success, FALSE), r)

this_recall(m, index, cb) ==
  LET r == private_recall(m, index, cb)
  IN  ReturnedSame(dev_end(r.m, r.success, TRUE), r)

this_delete(m, index, cb) ==
  LET r == private_delete(m, index, cb)
  IN  Returned(dev_end(r.m, r.success, TRUE), r.success, Undefined)

this_insert(m, index, state, cb) ==
  LET r == private_insert(m, index, state, cb)
  IN  Returned(dev_end(r.m, r.success, TRUE), r.success, Undefined)

this_replace(m, index, state, cb) ==
  LET r == private_replace(m, index, state, cb)
  IN  Returned(dev_end(r.m, r.success, TRUE), r.success, Undefined)

this_undo(m, cb) ==
  LET r == private_undo(m, cb)
  IN  Returned(dev_end(r.m, r.success, TRUE), r.success, Undefined)

this_redo(m, cb) ==
  LET r == private_redo(m, cb)
  IN  Returned(dev_end(r.m, r.success, TRUE), r.success, Undefined)

\* dev.props.onError as the constructor sets it: it logs the error.
DefaultOnError == Fn("console.log")

\* new KDStateManager(t, params): the _state it starts with, and dev.mode.
constructor(t, params) ==
  [store |-> IF params.store.t = "array" THEN params.store.s ELSE <<>>,
   storeOf |-> IF params.store.t = "array" THEN "caller" ELSE "manager",
   currentIndex |-> IF params.currentIndex.t = "number" /\ params.currentIndex.n > -1
                      THEN params.currentIndex.n ELSE -1,
   template |-> IF checkTemplate(t) THEN t ELSE Obj([k \in {} |-> Undefined]),
   mode |-> Truthy(params.dev),
   onError |-> DefaultOnError,
   ev |-> <<>>]

-----------------------------------------------------------------------------
(* What the caller passes *)

R1 == Obj([k \in {"a"} |-> Num(1)])
R2 == Obj([k \in {"a", "b", "c"} |-> IF k = "a" THEN Num(2) ELSE Num(1)])
R3 == Obj([k \in {"a", "b"} |-> IF k = "a" THEN Num(1) ELSE Undefined])

\* State objects: R3 has a field (b: undefined) that does not survive the copy.
States == {R1, R2, R3}

\* Serializable values that are not state objects.
Values == {Null, Num(0), False, Str("")}

Indices == -1..MaxLen

Callbacks == {"none", "user"}

T12 == Obj([k \in {"a", "b"} |-> IF k = "a" THEN Fn("h1") ELSE Fn("h2")])
T3 == Obj([k \in {"a"} |-> Fn("h3")])
TBad == Obj([k \in {"a"} |-> Num(5)])
TMixed == Obj([k \in {"a", "b"} |-> IF k = "a" THEN Fn("h3") ELSE Num(5)])

\* The functions handed to this.onError.
ErrorHandlers == {Fn("e1")}

CtorTemplates == {Undefined, T12, TBad}

CtorParams ==
  {[dev |-> d, store |-> Undefined, currentIndex |-> Undefined] : d \in {Undefined, True}}

\* The params of a call that is not the constructor.
NoParams == [dev |-> Undefined, store |-> Undefined, currentIndex |-> Undefined]

\* The arrays and numbers handed to the constructor as params.store and
\* params.currentIndex; Undefined: the parameter is absent.
SeedStores == {Undefined, Arr(<<>>), Arr(<<R1>>), Arr(<<R2, R1>>)}

SeedIndices == {Undefined, Num(0), Num(1)}

SeededParams ==
  {[dev |-> d, store |-> s, currentIndex |-> c] :
     d \in {Undefined, True}, s \in SeedStores, c \in SeedIndices}

\* template(): no argument reads the template.
TemplateArgs == {Undefined, T3, TBad, TMixed, Str("t")}

\* store(): no argument reads the store.
StoreArgs ==
  {Undefined, Arr(<<>>), Arr(<<R1>>), Arr(<<R2, R1>>), Arr(<<R1, R2, R3>>), R1}

-----------------------------------------------------------------------------
(* The state machine: one action per public method, each a whole call.    *)
(* `last` records the call just made: its arguments, the _state before    *)
(* it, its result, what it returned and the calls it made to user code.   *)
(* Return hands control back to the caller, who then makes the next call. *)

NoState == Undefined

Cur ==
  [store |-> store, storeOf |-> storeOf, currentIndex |-> currentIndex, template |-> template,
   mode |-> mode, onError |-> onError, ev |-> <<>>]

Pre == [store |-> store, currentIndex |-> currentIndex, template |-> template]

InBounds(m) ==
  /\ Len(m.store) <= MaxLen
  /\ m.currentIndex >= -1 - MaxUnder

Idle ==
  [op |-> "idle", index |-> 0, arg |-> NoState, cb |-> "none",
   params |-> NoParams, pre |-> Pre,
   success |-> Undefined, ret |-> Undefined, retRef |-> Fresh, ev |-> <<>>]

Commit(op, index, arg, cb, r) ==
  /\ last.op = "idle"
  /\ InBounds(r.m)
  /\ store' = r.m.store
  /\ storeOf' = r.m.storeOf
  /\ currentIndex' = r.m.currentIndex
  /\ template' = r.m.template
  /\ mode' = r.m.mode
  /\ onError' = r.m.onError
  /\ last' = [op |-> op, index |-> index, arg |-> arg, cb |-> cb,
              params |-> NoParams, pre |-> Pre,
              success |-> r.success, ret |-> r.ret, retRef |-> r.retRef,
              ev |-> r.m.ev]

\* The state after new KDStateManager(t, params).
Construct(t, params) ==
  LET m == constructor(t, params)
  IN  /\ store = m.store
      /\ storeOf = m.storeOf
      /\ currentIndex = m.currentIndex
      /\ template = m.template
      /\ mode = m.mode
      /\ onError = m.onError
      /\ last = [op |-> "constructor", index |-> 0, arg |-> t, cb |-> "none",
                 params |-> params,
                 pre |-> [store |-> m.store, currentIndex |-> m.currentIndex,
                          template |-> m.template],
                 success |-> Undefined, ret |-> Undefined, retRef |-> Fresh, ev |-> <<>>]

Init ==
  \E t \in CtorTemplates, params \in CtorParams : Construct(t, params)

\* A manager constructed with a store, a current index, or both.
InitSeeded ==
  \E t \in CtorTemplates, params \in SeededParams : Construct(t, params)

CallDevMode ==
  \E on \in BOOLEAN :
    Commit("devMode", 0, IF on THEN True ELSE False, "none", this_devMode(Cur, on))

CallOnError ==
  \E err \in ErrorHandlers :
    Commit("onError", 0, err, "none", this_onError(Cur, err))

CallIndexSet ==
  \E index \in Indices :
    Commit("index.set", index, NoState, "none", index_set(Cur, index))

CallTemplate ==
  \E t \in TemplateArgs, cb \in Callbacks :
    Commit("template", 0, t, cb, this_template(Cur, t, cb))

\* The arrays handed to the store setter, and what store() has just returned.
CallStore ==
  \E s \in StoreArgs \cup {this_store(Cur, Undefined, "none").ret}, cb \in Callbacks :
    Commit("store", 0, s, cb, this_store(Cur, s, cb))

CallAppend ==
  \E state \in States, cb \in Callbacks :
    Commit("append", 0, state, cb, this_append(Cur, state, cb))

CallRecall ==
  \E index \in Indices, cb \in Callbacks :
    Commit("recall", index, NoState, cb, this_recall(Cur, index, cb))

CallDelete ==
  \E index \in Indices, cb \in Callbacks :
    Commit("delete", index, NoState, cb, this_delete(Cur, index, cb))

CallInsert ==
  \E index \in Indices, state \in States, cb \in Callbacks :
    Commit("insert", index, state, cb, this_insert(Cur, index, state, cb))

CallReplace ==
  \E index \in Indices, state \in States, cb \in Callbacks :
    Commit("replace", index, state, cb, this_replace(Cur, index, state, cb))

CallUndo ==
  \E cb \in Callbacks :
    Commit("undo", 0, NoState, cb, this_undo(Cur, cb))

CallRedo ==
  \E cb \in Callbacks :
    Commit("redo", 0, NoState, cb, this_redo(Cur, cb))

Return ==
  /\ last.op # "idle"
  /\ last' = Idle
  /\ UNCHANGED <<store, storeOf, currentIndex, template, mode, onError>>

Next ==
  \/ Return
  \/ CallDevMode
  \/ CallOnError
  \/ CallIndexSet
  \/ CallTemplate
  \/ CallStore
  \/ CallAppend
  \/ CallRecall
  \/ CallDelete
  \/ CallInsert
  \/ CallReplace
  \/ CallUndo
  \/ CallRedo

Spec == Init /\ [][Next]_vars

\* The calls made on a manager constructed with a store or a current index.
SpecSeeded == InitSeeded /\ [][Next]_vars

\* append called with a serializable value that is not an object.
CallAppendValue ==
  \E v \in Values, cb \in Callbacks :
    Commit("append", 0, v, cb, this_append(Cur, v, cb))

NextValues ==
  \/ Next
  \/ CallAppendValue

\* The calls made on a manager whose store may hold any serializable value.
SpecValues == Init /\ [][NextValues]_vars

-----------------------------------------------------------------------------
(* The caller's own code between two calls: it writes to an object it got  *)
(* from the manager, or to one it handed to the manager.  An object the    *)
(* manager made with deepCopy and kept to itself is out of its reach.      *)

\* Object.assign(v, x)
Assign(v, x) ==
  Obj([k \in DOMAIN v.f \cup DOMAIN x.f |-> IF k \in DOMAIN x.f THEN x.f[k] ELSE v.f[k]])

IsReference(v) == v.t \in {"object", "array"}

\* The objects the last call handed to the caller: what it returned and what
\* it passed to the caller's callback.
Delivered ==
  {[v |-> last.ret, ref |-> last.retRef] : x \in {1} \cap {IF IsReference(last.ret) THEN 1 ELSE 0}}
    \cup {[v |-> last.ev[i].arg, ref |-> last.ev[i].ref] :
            i \in {j \in 1..Len(last.ev) :
                     /\ last.ev[j].e = "cb"
                     /\ last.ev[j].h = "user"
                     /\ IsReference(last.ev[j].arg)}}

\* The store after the caller wrote to the object ref: Object.assign(x, R2) on
\* a record, x.push(R2) on an array.
Written(ref) ==
  CASE ref.k = "slot" -> [store EXCEPT ![ref.i + 1] = Assign(@, R2)]
    [] ref.k = "store" -> Append(store, R2)
    [] OTHER -> store

Mutated(op, arg, written) ==
  /\ Len(written) <= MaxLen
  /\ store' = written
  /\ last' = [Idle EXCEPT !.op = op, !.arg = arg]
  /\ UNCHANGED <<storeOf, currentIndex, template, mode, onError>>

\* The caller writes to an object the last call returned or passed to its
\* callback.
CallerMutatesDelivered ==
  /\ last.op \in {"append", "recall", "delete", "insert", "replace", "undo",
                  "redo", "store", "template"}
  /\ \E d \in Delivered : Mutated("mutate.delivered", d.v, Written(d.ref))

\* The caller writes to the object it handed to the last call.  append, insert
\* and the store setter keep deepCopy of it (part_000:378, 406, 439); the
\* constructor keeps params.store itself (part_000:356).
CallerMutatesOriginal ==
  \/ /\ last.op \in {"append", "insert", "replace"}
     /\ Mutated("mutate.original", last.arg, Written(Fresh))
  \/ /\ last.op = "store"
     /\ last.arg.t = "array"
     /\ Mutated("mutate.original", last.arg, Written(Fresh))
  \/ /\ last.op = "constructor"
     /\ last.params.store.t = "array"
     /\ Mutated("mutate.original", last.params.store,
                Written(IF storeOf = "caller" THEN TheStore ELSE Fresh))

NextAlias ==
  \/ Next
  \/ CallerMutatesDelivered
  \/ CallerMutatesOriginal

\* The calls made on a manager, and what the caller does to the objects that
\* went in and came out.
SpecAlias == InitSeeded /\ [][NextAlias]_vars

-----------------------------------------------------------------------------
(* Reading the record of the last call *)

PreLen == Len(last.pre.store)

\* The index is one of the store as it was before the call.
IndexInStore == last.index >= 0 /\ last.index < PreLen

StateUnchanged ==
  /\ store = last.pre.store
  /\ currentIndex = last.pre.currentIndex
  /\ template = last.pre.template

HandlerCalls == SelectSeq(last.ev, LAMBDA x : x.e = "handler")

UserCallbacks == SelectSeq(last.ev, LAMBDA x : x.e = "cb" /\ x.h = "user")

ErrorReports == SelectSeq(last.ev, LAMBDA x : x.e = "onError")

\* The call failed: its result is false (replace: undefined), or it reported an
\* error to onError.
ReportsFailure ==
  \/ last.success = False
  \/ last.op = "replace" /\ last.success = Undefined
  \/ ErrorReports # <<>>

Succeeded == Truthy(last.success)

\* copy holds what a state object holds: its fields with a value, unchanged.
SameContent(copy, orig) ==
  /\ copy.t = "object"
  /\ DOMAIN copy.f = {k \in DOMAIN orig.f : orig.f[k] # Undefined}
  /\ \A k \in DOMAIN copy.f : copy.f[k] = orig.f[k]

-----------------------------------------------------------------------------
(* Claims *)

\* C1: whatever calls were made on a manager that started with an empty store,
\* currentIndex is -1 when the store is empty and otherwise an index of the
\* store, 0 .. length-1.
C1_CursorInRange ==
  IF store = <<>> THEN currentIndex = -1
  ELSE currentIndex >= 0 /\ currentIndex <= Len(store) - 1

\* C2: a call of recall, delete, insert, replace, undo, redo, index.set, the
\* template setter or the store setter that reports failure leaves the store,
\* currentIndex and the template as they were before the call.
C2_FailureChangesNothing ==
  (/\ last.op \in {"recall", "delete", "insert", "replace", "undo", "redo",
                   "index.set", "template", "store"}
   /\ ReportsFailure)
    => StateUnchanged

\* C2 witness: in dev mode, a delete at an index past the end of a store that
\* holds states failed and reported to onError.
C2_Witness ==
  /\ last.op = "delete"
  /\ last.index = PreLen
  /\ PreLen >= 2
  /\ last.pre.currentIndex = 1
  /\ last.success = False
  /\ ErrorReports # <<>>

\* C3: insert(index, record) with index < 0 or index > length fails: the result
\* is false and neither the store nor currentIndex changes.
C3_InsertOutOfRangeFails ==
  (last.op = "insert" /\ (last.index < 0 \/ last.index > PreLen))
    => /\ last.success = False
       /\ store = last.pre.store
       /\ currentIndex = last.pre.currentIndex

\* C4: after a successful insert(index, record) made with currentIndex c,
\* currentIndex is c+1 if index <= c and c if index > c.
C4_InsertShiftsCursor ==
  (last.op = "insert" /\ Succeeded)
    => currentIndex = IF last.index <= last.pre.currentIndex
                        THEN last.pre.currentIndex + 1
                        ELSE last.pre.currentIndex

\* C5: delete(index) with 0 <= index < length succeeds, and after every
\* successful delete currentIndex is one less than before, wherever index lies
\* relative to currentIndex.
C5_DeleteDecrementsCursor ==
  /\ (last.op = "delete" /\ IndexInStore) => Succeeded
  /\ (last.op = "delete" /\ Succeeded)
       => currentIndex = last.pre.currentIndex - 1

\* C5 witness: a delete after the current index, on a store of three states.
C5_Witness ==
  /\ last.op = "delete"
  /\ Succeeded
  /\ PreLen = 3
  /\ last.pre.currentIndex = 0
  /\ last.index = 2
  /\ currentIndex = -1

\* C6: append(record) succeeds in every state: the states stored before stay
\* as they were and in order, a copy of record becomes the last element (the
\* length grows by one), the copy is the result, and currentIndex is length-1.
C6_AppendAddsLast ==
  last.op = "append"
    => /\ Succeeded
       /\ Len(store) = PreLen + 1
       /\ SubSeq(store, 1, PreLen) = last.pre.store
       /\ SameContent(store[Len(store)], last.arg)
       /\ last.success = store[Len(store)]
       /\ currentIndex = Len(store) - 1

\* C6 witness: an append to a store of two states whose current index had
\* drifted to -1, of a state with a field the copy drops.
C6_Witness ==
  /\ last.op = "append"
  /\ PreLen = 2
  /\ last.pre.currentIndex = -1
  /\ last.arg = R3
  /\ currentIndex = 2

\* C7: recall(index) with 0 <= index < length succeeds: afterwards currentIndex
\* is index, the store is unchanged, and the value returned, and passed to the
\* callback, has the content of the state stored at index.
C7_RecallInRange ==
  (last.op = "recall" /\ IndexInStore)
    => /\ Succeeded
       /\ currentIndex = last.index
       /\ store = last.pre.store
       /\ last.success = last.pre.store[last.index + 1]
       /\ last.ret = last.pre.store[last.index + 1]
       /\ last.cb = "user"
            => /\ Len(UserCallbacks) = 1
               /\ UserCallbacks[1].arg = last.pre.store[last.index + 1]

\* C7 witness: a recall, with a callback, of the last of three states from
\* current index 0.
C7_Witness ==
  /\ last.op = "recall"
  /\ PreLen = 3
  /\ last.pre.currentIndex = 0
  /\ last.index = 2
  /\ last.cb = "user"
  /\ currentIndex = 2

\* C8: on a successful recall, undo or redo, the handler of every key that the
\* template and the recalled state both have is called exactly once, with the
\* state's value for the key, and no handler is called for a key that only the
\* state has.
C8_DispatchMatchingKeys ==
  (last.op \in {"recall", "undo", "redo"} /\ Succeeded)
    => LET rec == store[currentIndex + 1]
           t == last.pre.template
       IN  /\ last.success = rec
           /\ \A k \in DOMAIN t.f \cap DOMAIN rec.f :
                \E i \in DOMAIN HandlerCalls :
                  /\ HandlerCalls[i].key = k
                  /\ HandlerCalls[i].h = t.f[k].h
                  /\ HandlerCalls[i].arg = rec.f[k]
                  /\ \A j \in DOMAIN HandlerCalls :
                       (HandlerCalls[j].key = k \/ HandlerCalls[j].h = t.f[k].h) => j = i
           /\ \A k \in DOMAIN rec.f \ DOMAIN t.f :
                \A i \in DOMAIN HandlerCalls : HandlerCalls[i].key # k

\* C8 witness: a redo to a state with keys a, b and c under a template with
\* handlers for a and b.
C8_Witness ==
  /\ last.op = "redo"
  /\ Succeeded
  /\ DOMAIN last.pre.template.f = {"a", "b"}
  /\ DOMAIN last.success.f = {"a", "b", "c"}
  /\ Len(HandlerCalls) = 2

\* C9: on a successful recall, the handler of a template key that the recalled
\* state does not have is not called.
C9_AbsentKeySkipped ==
  (last.op = "recall" /\ Succeeded)
    => \A k \in DOMAIN last.pre.template.f \ DOMAIN last.success.f :
         \A i \in DOMAIN HandlerCalls : HandlerCalls[i].key # k

\* C10: undo() with currentIndex > 0 has the effect and the result of
\* recall(currentIndex - 1): currentIndex goes down by one and the handlers are
\* dispatched; with currentIndex <= 0 it fails, changes neither the store nor
\* currentIndex and calls no handler.
C10_UndoIsRecall ==
  last.op = "undo"
    => IF last.pre.currentIndex > 0
         THEN LET before == [Cur EXCEPT !.store = last.pre.store,
                                        !.currentIndex = last.pre.currentIndex,
                                        !.template = last.pre.template]
                  r == this_recall(before, last.pre.currentIndex - 1, last.cb)
              IN  /\ store = r.m.store
                  /\ currentIndex = r.m.currentIndex
                  /\ currentIndex = last.pre.currentIndex - 1
                  /\ template = r.m.template
                  /\ last.ev = r.m.ev
                  /\ last.success = r.success
                  /\ last.ret = r.ret
         ELSE /\ last.success = False
              /\ StateUnchanged
              /\ HandlerCalls = <<>>

\* The manager as it was before the last call, about to run another call.
Before ==
  [Cur EXCEPT !.store = last.pre.store,
              !.currentIndex = last.pre.currentIndex,
              !.template = last.pre.template]

\* C11: redo() with currentIndex < length-1 succeeds with the effect and the
\* result of recall(currentIndex + 1); with currentIndex >= length-1 it fails,
\* changes neither the store nor currentIndex and calls no handler.
C11_RedoIsRecall ==
  last.op = "redo"
    => IF last.pre.currentIndex < PreLen - 1
         THEN LET r == this_recall(Before, last.pre.currentIndex + 1, last.cb)
              IN  /\ Succeeded
                  /\ store = r.m.store
                  /\ currentIndex = r.m.currentIndex
                  /\ template = r.m.template
                  /\ last.ev = r.m.ev
                  /\ last.success = r.success
                  /\ last.ret = r.ret
         ELSE /\ last.success = False
              /\ StateUnchanged
              /\ HandlerCalls = <<>>

\* C14: append, recall, delete, insert, replace, undo and redo return to the
\* caller the result they pass to the completion callback: the record on
\* success and false on failure.
C14_ReturnIsCallbackResult ==
  last.op \in {"append", "recall", "delete", "insert", "replace", "undo",
               "redo"}
    => /\ last.ret = False \/ last.ret.t = "object"
       /\ \A i \in 1..Len(UserCallbacks) : UserCallbacks[i].arg = last.ret

\* The last call was one of the failing calls: recall, delete or replace at an
\* index that is not in the store, insert at a negative index, undo with
\* currentIndex <= 0, redo with currentIndex at or past the last index, the
\* template setter with a value that is not a mapping of functions, the store
\* setter with a value that is not an array.
FailingCall ==
  \/ last.op \in {"recall", "delete", "replace"} /\ ~IndexInStore
  \/ last.op = "insert" /\ last.index < 0
  \/ last.op = "undo" /\ last.pre.currentIndex <= 0
  \/ last.op = "redo" /\ last.pre.currentIndex >= PreLen - 1
  \/ last.op = "template" /\ Truthy(last.arg) /\ ~checkTemplate(last.arg)
  \/ last.op = "store" /\ Truthy(last.arg) /\ last.arg.t # "array"

\* C15: a failing call that was given a completion callback calls it exactly
\* once, with false, before it returns.
C15_FailureCallsBack ==
  (FailingCall /\ last.cb = "user")
    => /\ Len(UserCallbacks) = 1
       /\ UserCallbacks[1].arg = False

\* The handler events of recall(index) made in the current state.
RecallHandlers(index) ==
  SelectSeq(this_recall(Cur, index, "none").m.ev, LAMBDA x : x.e = "handler")

\* C16: after the template setter was called with a mapping whose every value
\* is a function, a recall of a stored record that holds one of its keys calls
\* the function set for that key, and calls nothing but functions of the new
\* mapping.
C16_TemplateSetterActivates ==
  (last.op = "template" /\ Truthy(last.arg) /\ checkTemplate(last.arg))
    => \A index \in 0..(Len(store) - 1) :
         LET hs == RecallHandlers(index)
         IN  /\ \A key \in DOMAIN last.arg.f :
                  key \in DOMAIN store[index + 1].f
                    => \E i \in 1..Len(hs) :
                         hs[i].key = key /\ hs[i].h = last.arg.f[key].h
             /\ \A i \in 1..Len(hs) :
                  /\ hs[i].key \in DOMAIN last.arg.f
                  /\ hs[i].h = last.arg.f[hs[i].key].h

\* The template setter was called with a mapping that holds a value that is
\* not a function.
InvalidTemplateSet ==
  /\ last.op = "template"
  /\ last.arg.t = "object"
  /\ \E k \in DOMAIN last.arg.f : typeof(last.arg.f[k]) # "function"

\* The handler events of recall(index) in the current state, were the template
\* still the one before the last call.
RecallHandlersBefore(index) ==
  SelectSeq(this_recall([Cur EXCEPT !.template = last.pre.template], index, "none").m.ev,
            LAMBDA x : x.e = "handler")

\* C17: the template setter called with a mapping that holds a non-function
\* value reports failure (it returns false, passes false to the callback or
\* calls onError) and keeps the previous template: recalls dispatch to the
\* handlers they dispatched to before.
C17_InvalidTemplateRejected ==
  InvalidTemplateSet
    => /\ \/ last.ret = False
          \/ \E i \in 1..Len(UserCallbacks) : UserCallbacks[i].arg = False
          \/ ErrorReports # <<>>
       /\ template = last.pre.template
       /\ \A index \in 0..(Len(store) - 1) :
            RecallHandlers(index) = RecallHandlersBefore(index)

\* The last call handed the store setter what store() returned just before it.
RoundTrip ==
  /\ last.op = "store"
  /\ last.arg = deepCopy(Arr(last.pre.store))

\* C18: the store setter called with an array replaces the whole store by a
\* copy of the array, record by record, and sets currentIndex to the new last
\* index (-1 for the empty array); store(store()) leaves the records as they
\* were and sets currentIndex to length-1.
C18_StoreSetterReplaces ==
  (last.op = "store" /\ last.arg.t = "array")
    => /\ Len(store) = Len(last.arg.s)
       /\ \A i \in 1..Len(store) : SameContent(store[i], last.arg.s[i])
       /\ currentIndex = Len(store) - 1
       /\ RoundTrip => store = last.pre.store

\* C18 witness: store(store()) on a store of two or more records whose cursor
\* was not at the last record; the records are the same and the cursor is at
\* the last one.
C18_Witness ==
  /\ RoundTrip
  /\ PreLen >= 2
  /\ last.pre.currentIndex < PreLen - 1
  /\ store = last.pre.store
  /\ currentIndex = PreLen - 1

\* The last call was index.set with an index that is not in the store.
FailingIndexSet == last.op = "index.set" /\ ~IndexInStore

\* Every report made to onError went to the function onError holds.
ReportsToCurrent ==
  \A i \in 1..Len(ErrorReports) : ErrorReports[i].h = onError.h

\* C20 as stated: every validation failure calls the current onError function,
\* whether dev mode is on or off.
C20_EveryFailureCallsOnError ==
  (FailingCall \/ FailingIndexSet)
    => /\ ErrorReports # <<>>
       /\ ReportsToCurrent

\* C20 amended: a failing recall, delete, insert, replace, undo, redo, template
\* setter or store setter calls the current onError function exactly once in
\* dev mode and not at all outside it; a failing index.set calls it exactly
\* once whatever the mode.
C20_OnErrorInDevMode ==
  /\ FailingCall => Len(ErrorReports) = (IF mode THEN 1 ELSE 0)
  /\ FailingIndexSet => Len(ErrorReports) = 1
  /\ ReportsToCurrent

\* C20 witness: in dev mode, after onError was replaced, a recall at an index
\* that is not in the store called the new function once.
C20_Witness ==
  /\ last.op = "recall"
  /\ ~IndexInStore
  /\ mode
  /\ onError = Fn("e1")
  /\ Len(ErrorReports) = 1
  /\ ErrorReports[1].h = "e1"

\* C19: a manager constructed with a store of n records and no current index
\* starts with currentIndex = n-1 (-1 when n = 0).
C19_SeededCursorIsLast ==
  (/\ last.op = "constructor"
   /\ last.params.store.t = "array"
   /\ last.params.currentIndex = Undefined)
    => currentIndex = Len(store) - 1

\* C12: no object handed to the caller (returned, or passed to the callback,
\* by append, insert, replace, delete, recall, undo, redo or the store and
\* template accessors) is an object of the store: after the caller wrote to
\* it, store() returns what it returned before.
C12_DeliveredNotShared ==
  last.op = "mutate.delivered"
    => this_store(Cur, Undefined, "none").ret
         = this_store(Before, Undefined, "none").ret

\* C13: every record or array handed to the manager (append, insert, replace,
\* the store setter, the constructor's params.store) is kept as a copy: after
\* the caller wrote to its original, the store is what it was.
C13_HandedInCopied ==
  last.op = "mutate.original" => store = last.pre.store

\* C21: replace(index, state) with 0 <= index < length succeeds; the store
\* keeps its length, holds a copy of state at index and at every other index
\* the record it held before; the callback gets the record now at index.
C21_ReplaceInPlace ==
  (last.op = "replace" /\ IndexInStore)
    => /\ Succeeded
       /\ Len(store) = PreLen
       /\ SameContent(store[last.index + 1], last.arg)
       /\ \A i \in 1..PreLen : i # last.index + 1 => store[i] = last.pre.store[i]
       /\ last.cb = "user"
            => /\ Len(UserCallbacks) = 1
               /\ UserCallbacks[1].arg = store[last.index + 1]

\* C21 witness: a replace with a callback, in the middle of a store of three
\* records, by a record that differs from the one that was there.
C21_Witness ==
  /\ last.op = "replace"
  /\ last.cb = "user"
  /\ PreLen = 3
  /\ last.index = 1
  /\ store[2] # last.pre.store[2]
  /\ store[1] = last.pre.store[1]
  /\ store[3] = last.pre.store[3]

\* C22: delete(index) with 0 <= index < length removes the record at index and
\* no other: the store is one shorter, the records before index stay where
\* they were, those after it move down by one, and the callback gets the
\* record that was removed.
C22_DeleteRemovesOne ==
  (last.op = "delete" /\ IndexInStore)
    => /\ Len(store) = PreLen - 1
       /\ \A i \in 1..Len(store) :
            store[i] = last.pre.store[IF i <= last.index THEN i ELSE i + 1]
       /\ last.success = last.pre.store[last.index + 1]
       /\ last.cb = "user"
            => /\ Len(UserCallbacks) = 1
               /\ UserCallbacks[1].arg = last.pre.store[last.index + 1]

\* C22 witness: a delete with a callback of the first of three records, which
\* differs from the second.
C22_Witness ==
  /\ last.op = "delete"
  /\ last.cb = "user"
  /\ last.index = 0
  /\ PreLen = 3
  /\ last.pre.store[1] # last.pre.store[2]
  /\ store = <<last.pre.store[2], last.pre.store[3]>>
  /\ UserCallbacks[1].arg = last.pre.store[1]

\* The manager now, with dev mode on: a call that fails reports to onError.
CurDev == [Cur EXCEPT !.mode = TRUE]

Reported(r) == \E i \in 1..Len(r.m.ev) : r.m.ev[i].e = "onError"

\* C23: whether recall, delete, insert and index.set accept an index depends
\* on where it lies in the store and not on the value stored there: whatever
\* serializable values were appended (null, 0, false and "" among them),
\* recall, delete and index.set succeed at exactly the indices 0 .. length-1,
\* delete removes the element there, and insert puts the new state there.
C23_ValidityByPosition ==
  \A index \in Indices :
    LET inStore == index >= 0 /\ index < Len(store)
        d == this_delete(CurDev, index, "none")
        n == this_insert(CurDev, index, R1, "none")
    IN  /\ ~Reported(this_recall(CurDev, index, "none")) <=> inStore
        /\ ~Reported(index_set(CurDev, index)) <=> inStore
        /\ ~Reported(d) <=> inStore
        /\ inStore => Len(d.m.store) = Len(store) - 1
        /\ inStore => /\ ~Reported(n)
                      /\ n.m.store[index + 1] = deepCopy(R1)

\* The index a recall, undo or redo goes to.
Target ==
  CASE last.op = "undo" -> last.pre.currentIndex - 1
    [] last.op = "redo" -> last.pre.currentIndex + 1
    [] OTHER -> last.index

\* C24: in a successful recall, undo or redo the current index is set to the
\* target first, then every handler of the template is called, then the
\* callback, once, and then the call returns: every handler and the callback
\* find the current index already at the target.
C24_RecallOrder ==
  (last.op \in {"recall", "undo", "redo"} /\ Succeeded)
    => /\ currentIndex = Target
       /\ \A i \in 1..Len(last.ev) : last.ev[i].cur = Target
       /\ Len(HandlerCalls) = Cardinality(DOMAIN last.pre.template.f)
       /\ \A i \in 1..Len(last.ev) :
            last.ev[i].e = "handler" <=> i <= Len(HandlerCalls)
       /\ Len(last.ev) = Len(HandlerCalls) + (IF last.cb = "user" THEN 1 ELSE 0)
       /\ last.cb = "user" => last.ev[Len(last.ev)].e = "cb"

\* C24 witness: an undo with a callback under a template of two handlers; the
\* two handlers and then the callback ran, each with the current index one
\* below where it was.
C24_Witness ==
  /\ last.op = "undo"
  /\ Succeeded
  /\ last.cb = "user"
  /\ Len(last.ev) = 3
  /\ last.ev[1].e = "handler"
  /\ last.ev[2].e = "handler"
  /\ last.ev[3].e = "cb"
  /\ last.ev[1].cur = last.pre.currentIndex - 1
  /\ last.ev[3].cur = last.pre.currentIndex - 1

\* undo() called in the current state, and redo() called right after it.
UndoNow == this_undo(Cur, "none")

RedoAfterUndo == this_redo(UndoNow.m, "none")

\* C25: in every reachable state in which undo() succeeds, a redo() right
\* after it succeeds too, puts the current index back where it was before
\* the undo, and returns the record stored at that index.
C25_UndoRedoIdentity ==
  Truthy(UndoNow.success)
    => /\ Truthy(RedoAfterUndo.success)
       /\ RedoAfterUndo.m.currentIndex = currentIndex
       /\ RedoAfterUndo.ret = At(store, currentIndex)

\* C26: after a successful replace(index, state) made with the current index
\* at c, the current index is c when index < c-1 and c-1 otherwise.
C26_ReplaceMovesCursor ==
  (last.op = "replace" /\ Succeeded)
    => currentIndex = (IF last.index < last.pre.currentIndex - 1
                         THEN last.pre.currentIndex
                         ELSE last.pre.currentIndex - 1)

\* C26 witness: a replace of the record just before the current one moved the
\* current index back by one.
C26_Witness ==
  /\ last.op = "replace"
  /\ Succeeded
  /\ last.pre.currentIndex = 2
  /\ last.index = 1
  /\ currentIndex = 1

\* C27: template handlers are called by a successful recall, undo or redo and
\* by nothing else (not by append, insert, delete, replace, index.set or the
\* setters, nor by a recall that fails); recall, undo, redo and index.set
\* leave the store as it was.
C27_HandlersOnlyOnRecall ==
  /\ HandlerCalls # <<>>
       => last.op \in {"recall", "undo", "redo"} /\ Succeeded
  /\ last.op \in {"recall", "undo", "redo", "index.set"}
       => store = last.pre.store

\* C27 witness: under a template with handlers, an insert with a callback
\* succeeded and called the callback only.
C27_Witness ==
  /\ last.op = "insert"
  /\ Succeeded
  /\ DOMAIN template.f # {}
  /\ last.pre.store # <<>>
  /\ Len(last.ev) = 1
  /\ last.ev[1].e = "cb"
  /\ HandlerCalls = <<>>

\* C28: the callback given to replace never runs between the internal delete
\* and the internal insert: when it runs, the store has the length it had
\* before the call and holds the new record at index; it runs at most once in
\* a call.
C28_ReplaceCallbackSeesResult ==
  last.op = "replace"
    => /\ Len(UserCallbacks) <= 1
       /\ \A i \in 1..Len(UserCallbacks) :
            /\ Len(UserCallbacks[i].store) = PreLen
            /\ SameContent(At(UserCallbacks[i].store, last.index), last.arg)
            /\ UserCallbacks[i].arg = At(UserCallbacks[i].store, last.index)

\* C28 witness: a replace with a callback in a store of two records; the
\* internal delete left one record for its own callback to see, and the
\* caller's callback ran after it and saw two.
C28_Witness ==
  /\ last.op = "replace"
  /\ PreLen = 2
  /\ Len(last.ev) = 2
  /\ last.ev[1].h = "noop"
  /\ Len(last.ev[1].store) = 1
  /\ last.ev[2].h = "user"
  /\ Len(last.ev[2].store) = 2
  /\ last.ev[2].store[last.index + 1] # last.pre.store[last.index + 1]

====
